---- MODULE Spec2Model ----
(***************************************************************************)
(* Model of plex-playlist-fix.py: the run over the CSV backlogs (main),    *)
(* reconciliation against the remote playlist and library                  *)
(* (_get_available_plex_tracks), the confirmation-gated addition           *)
(* (confirm_and_add_tracks, add_tracks_to_playlist) and the CSV rewrite,   *)
(* together with the pure helpers sanitize_string and                      *)
(* get_best_matching_track (difflib.SequenceMatcher.ratio).                *)
(*                                                                         *)
(* Strings are sequences of characters; a character is a one-element       *)
(* token.  Non-ASCII characters are written by their entity names:         *)
(* "eacute" (U+00E9), "iexcl" (U+00A1), "iquest" (U+00BF), "rsquo"         *)
(* (U+2019); the double quote, the backslash and the backtick are          *)
(* "dquote", "backslash" and "backtick".                                   *)
(***************************************************************************)
EXTENDS Integers, Sequences, FiniteSets, TLC

VARIABLES
  pc,                     \* position of the run
  plIdx,                  \* index of the playlist main's loop is at
  playlist_data,          \* read_csv_files' result: playlist name -> songs
  csv,                    \* the CSV files on disk: playlist name -> rows
  plex_playlists,         \* remote playlists: name -> [exists, items]
  current_playlist_songs, \* snapshot taken by get_current_playlist_songs
  songIdx,                \* position of the loop over songs
  plex_tracks,            \* locals of _get_available_plex_tracks
  missing_tracks,
  found_tracks,
  skipped,                \* history: indices the loop skipped with `continue`
  searched,               \* history: indices the loop queried the library for
  searches,               \* history: name -> library queries issued in reconciliation
  confirmation,           \* history: name -> answer to "Add n tracks" ("unasked" before)
  addLog,                 \* history: name -> the addItems call made for it
  csvWrites,              \* history: name -> number of times its CSV was rewritten
  input_string,           \* sanitize_string under test
  sanitized_string,
  resanitized_string

vars == <<pc, plIdx, playlist_data, csv, plex_playlists, current_playlist_songs,
          songIdx, plex_tracks, missing_tracks, found_tracks, skipped, searched,
          searches, confirmation, addLog, csvWrites,
          input_string, sanitized_string, resanitized_string>>

\* ------------------------------------------------------------------ bounds

\* Total number of rows over all CSV files.
MaxRows == 2

\* Longest input string given to sanitize_string.
MaxLen == 3

\* ------------------------------------------------------------ sequences

Range(s) == {s[i] : i \in DOMAIN s}

RECURSIVE SeqsUpTo(_, _)
SeqsUpTo(S, n) ==
  IF n = 0 THEN {<<>>}
  ELSE LET shorter == SeqsUpTo(S, n - 1)
       IN  shorter \cup {Append(s, x) : s \in {t \in shorter : Len(t) = n - 1}, x \in S}

RECURSIVE Flatten(_)
Flatten(ss) == IF ss = <<>> THEN <<>> ELSE Head(ss) \o Flatten(Tail(ss))

\* ------------------------------------------------------- sanitize_string

\* string.punctuation.replace(".", "")
Punctuation ==
  {"!", "dquote", "#", "$", "%", "&", "'", "(", ")", "*", "+", ",", "-", "/", ":",
   ";", "<", "=", ">", "?", "@", "[", "backslash", "]", "^", "_", "backtick", "{", "|", "}", "~"}

\* input_string.translate(translator)
Translate(s) == SelectSeq(s, LAMBDA c : c \notin Punctuation)

\* .replace("?", "").replace(U+00BF, "")
RemoveQuestionMarks(s) == SelectSeq(s, LAMBDA c : c \notin {"?", "iquest"})

\* unidecode's table for the characters of the model; ASCII maps to itself.
UnidecodeChar(c) ==
  CASE c = "eacute" -> <<"e">>
    [] c = "iexcl"  -> <<"!">>
    [] c = "iquest" -> <<"?">>
    [] c = "rsquo"  -> <<"'">>
    [] OTHER        -> <<c>>

Unidecode(s) == Flatten([i \in DOMAIN s |-> UnidecodeChar(s[i])])

sanitize_string(s) == Unidecode(RemoveQuestionMarks(Translate(s)))

\* ------------------------------------------------ SequenceMatcher.ratio

RECURSIVE RunLen(_, _, _, _, _, _)
\* Length of the common run of a[i..ahi-1] and b[j..bhi-1] starting at i, j.
RunLen(a, b, i, j, ahi, bhi) ==
  IF i < ahi /\ j < bhi /\ a[i] = b[j]
  THEN 1 + RunLen(a, b, i + 1, j + 1, ahi, bhi)
  ELSE 0

\* find_longest_match without junk: the longest block, of those the one
\* starting earliest in a, of those the one starting earliest in b.
find_longest_match(a, b, alo, ahi, blo, bhi) ==
  LET pairs == (alo .. (ahi - 1)) \X (blo .. (bhi - 1))
      len(p) == RunLen(a, b, p[1], p[2], ahi, bhi)
      best  == {p \in pairs : \A q \in pairs : len(q) <= len(p)}
      first == {p \in best : \A q \in best :
                   p[1] < q[1] \/ (p[1] = q[1] /\ p[2] <= q[2])}
  IN  IF pairs = {} \/ \A p \in pairs : len(p) = 0
      THEN <<alo, blo, 0>>
      ELSE LET p == CHOOSE p \in first : TRUE IN <<p[1], p[2], len(p)>>

RECURSIVE MatchedChars(_, _, _, _, _, _)
\* get_matching_blocks: the longest block, then the pieces left and right of it.
MatchedChars(a, b, alo, ahi, blo, bhi) ==
  LET m == find_longest_match(a, b, alo, ahi, blo, bhi)
  IN  IF m[3] = 0 THEN 0
      ELSE m[3]
           + (IF alo < m[1] /\ blo < m[2]
              THEN MatchedChars(a, b, alo, m[1], blo, m[2]) ELSE 0)
           + (IF m[1] + m[3] < ahi /\ m[2] + m[3] < bhi
              THEN MatchedChars(a, b, m[1] + m[3], ahi, m[2] + m[3], bhi) ELSE 0)

\* ratio() as the fraction <<numerator, denominator>>: 2.0 * matches / length,
\* and 1.0 for two empty strings.
Ratio(a, b) ==
  IF Len(a) + Len(b) = 0 THEN <<1, 1>>
  ELSE <<2 * MatchedChars(a, b, 1, Len(a) + 1, 1, Len(b) + 1), Len(a) + Len(b)>>

RatioGT(r, s) == r[1] * s[2] > s[1] * r[2]

\* -------------------------------------------------- the Plex library

\* Python's None, where a record is expected.
None == [none |-> TRUE]

\* The Music section: artists in the order the server lists them, each with
\* its tracks in the order tracks() returns them.
Library ==
  << [title  |-> <<"A">>,
      tracks |-> << [id |-> 1, title |-> <<"G", "o">>,           artist |-> <<"A">>],
                    [id |-> 2, title |-> <<"G", "o", "n", "e">>, artist |-> <<"A">>] >>],
     [title  |-> <<"B", "!">>,
      tracks |-> << [id |-> 3, title |-> <<"G", "o">>,           artist |-> <<"B", "!">>] >>] >>

\* section('Music').search(title=..., libtype='artist') and searchArtists(title=...):
\* the server's matching policy is its own; here an artist matches when its
\* name, normalized, is the query.
searchArtists(title) ==
  SelectSeq(Library, LAMBDA artist : sanitize_string(artist.title) = title)

\* ----------------------------------------------------------- the inputs

\* The rows a CSV file may hold.
Songs ==
  { [title |-> <<"G", "o">>,      artist |-> <<"A", "!">>],
    [title |-> <<"G", "o", "x">>, artist |-> <<"A">>],
    [title |-> <<"Z", "z">>,      artist |-> <<"B", "!">>],
    [title |-> <<"G", "o">>,      artist |-> <<"B", "!">>],
    [title |-> <<"Q">>,           artist |-> <<"N">>] }

\* playlist_data.items(): one CSV file per playlist, in directory order.
PlaylistNames == <<"p1", "p2">>

Names == Range(PlaylistNames)

\* What a remote playlist may hold when the run starts.
InitialItems == {<<>>, <<Library[1].tracks[1]>>, <<Library[2].tracks[1]>>}

\* What the user may type at a prompt.
Responses == {"y", "Y", "n", ""}

\* str.lower() on the responses.
Lower(resp) == IF resp = "Y" THEN "y" ELSE resp

\* A gate that takes every answer but n for a yes.
IsAffirmativeUnlessNo(resp) == Lower(resp) # "n"

\* confirmation.lower() == 'y'
IsAffirmative(resp) == Lower(resp) = "y"

\* ------------------------------------------------------ fetch_playlist

\* fetch_playlist: the playlist of that name, or None.
fetch_playlist(playlists, playlist_name) ==
  IF playlists[playlist_name].exists THEN playlists[playlist_name] ELSE None

\* f"{a} - {b}"
TrackString(a, b) == a \o <<" ", "-", " ">> \o b

\* [f"{item.artist().title} - {item.title}" for item in playlist.items()]
ItemStrings(items) == [i \in DOMAIN items |-> TrackString(items[i].artist, items[i].title)]

get_current_playlist_songs(playlists, playlist_name) ==
  LET playlist == fetch_playlist(playlists, playlist_name)
  IN  IF playlist = None THEN <<>> ELSE ItemStrings(playlist.items)

\* ------------------------------------------- get_best_matching_track

RECURSIVE BestFrom(_, _, _, _, _)
\* The loop of get_best_matching_track from track k on.
BestFrom(title, tracks, k, best_match, highest_ratio) ==
  IF k > Len(tracks) THEN best_match
  ELSE LET ratio == Ratio(title, sanitize_string(tracks[k].title))
       IN  IF RatioGT(ratio, highest_ratio)
           THEN BestFrom(title, tracks, k + 1, tracks[k], ratio)
           ELSE BestFrom(title, tracks, k + 1, best_match, highest_ratio)

get_best_matching_track(title, tracks) == BestFrom(title, tracks, 1, None, <<0, 1>>)

\* ------------------------------------------------------------ the run

\* The playlist main's loop is at, and its songs.
playlist_name == PlaylistNames[plIdx]

songs == playlist_data[playlist_name]

\* How a library query may end: with a result, or with plexapi's BadRequest
\* (the server answered the request with an error).
QueryOutcomes == {"ok", "BadRequest"}

NoAdd ==
  [called |-> FALSE, tracks_to_add |-> <<>>, track_objects |-> <<>>, bad |-> {},
   items_before |-> <<>>, num_added |-> 0]

PlaylistStates ==
  {[exists |-> FALSE, items |-> <<>>]} \cup {[exists |-> TRUE, items |-> it] : it \in InitialItems}

RECURSIVE TotalRows(_, _)
TotalRows(data, k) == IF k = 0 THEN 0 ELSE Len(data[PlaylistNames[k]]) + TotalRows(data, k - 1)

\* The state when main enters its loop: the configuration is loaded, the
\* library chosen and the CSV files read.
Init ==
  /\ pc = "main"
  /\ plIdx = 1
  /\ playlist_data \in {d \in [Names -> SeqsUpTo(Songs, MaxRows)] :
                          TotalRows(d, Len(PlaylistNames)) <= MaxRows}
  /\ csv = playlist_data
  /\ plex_playlists \in [Names -> PlaylistStates]
  /\ current_playlist_songs = <<>>
  /\ songIdx = 1
  /\ plex_tracks = <<>>
  /\ missing_tracks = <<>>
  /\ found_tracks = <<>>
  /\ skipped = <<>>
  /\ searched = {}
  /\ searches = [n \in Names |-> 0]
  /\ confirmation = [n \in Names |-> "unasked"]
  /\ addLog = [n \in Names |-> NoAdd]
  /\ csvWrites = [n \in Names |-> 0]
  /\ input_string = <<>>
  /\ sanitized_string = <<>>
  /\ resanitized_string = <<>>

normVars == <<input_string, sanitized_string, resanitized_string>>

\* The end of one iteration of main's loop: the locals of the pass are gone,
\* and the loop is at the next playlist or the run is over.
NextPlaylist ==
  /\ plIdx' = plIdx + 1
  /\ pc' = IF plIdx + 1 > Len(PlaylistNames) THEN "done" ELSE "main"
  /\ current_playlist_songs' = <<>>
  /\ songIdx' = 1
  /\ plex_tracks' = <<>>
  /\ missing_tracks' = <<>>
  /\ found_tracks' = <<>>
  /\ skipped' = <<>>
  /\ searched' = {}

\* main: "Do you want to process the CSV for playlist ... (y/N)?" answered
\* with anything but y.
SkipPlaylist ==
  /\ pc = "main"
  /\ \E resp \in Responses : ~IsAffirmative(resp)
  /\ NextPlaylist
  /\ UNCHANGED <<playlist_data, csv, plex_playlists, searches, confirmation, addLog,
                 csvWrites, normVars>>

\* main: the prompt answered y; _get_available_plex_tracks starts and takes
\* the snapshot of the playlist.
StartPlaylist ==
  /\ pc = "main"
  /\ \E resp \in Responses : IsAffirmative(resp)
  /\ pc' = "recon"
  /\ current_playlist_songs' = get_current_playlist_songs(plex_playlists, playlist_name)
  /\ songIdx' = 1
  /\ plex_tracks' = <<>>
  /\ missing_tracks' = <<>>
  /\ found_tracks' = <<>>
  /\ skipped' = <<>>
  /\ searched' = {}
  /\ UNCHANGED <<plIdx, playlist_data, csv, plex_playlists, searches, confirmation,
                 addLog, csvWrites, normVars>>

\* A track_string built from the artist as the CSV gives it.
SongKeyRaw(song) == TrackString(song.artist, song.title)

\* track_string of a song: f"{sanitized_artist} - {song['title']}"
SongKey(song) == TrackString(sanitize_string(song.artist), song.title)

\* A handler of BadRequest that only logs.
OnBadRequestDropped(missing, song) == missing

\* except BadRequest: missing_tracks.append(song)
OnBadRequest(missing, song) == Append(missing, song)

\* The try block for one song: the best match, or None when the artist or
\* the track is not found.
SearchSong(song) ==
  LET artist_results == searchArtists(sanitize_string(song.artist))
  IN  IF artist_results # <<>>
      THEN get_best_matching_track(song.title, artist_results[1].tracks)
      ELSE None

\* One iteration of the loop of _get_available_plex_tracks.
ReconcileSong ==
  /\ pc = "recon"
  /\ songIdx <= Len(songs)
  /\ LET song == songs[songIdx]
     IN  IF \E k \in DOMAIN current_playlist_songs : current_playlist_songs[k] = SongKey(song)
         THEN /\ skipped' = Append(skipped, songIdx)
              /\ UNCHANGED <<plex_tracks, missing_tracks, found_tracks, searched, searches>>
         ELSE \E outcome \in QueryOutcomes :
                /\ searched' = searched \cup {songIdx}
                /\ searches' = [searches EXCEPT ![playlist_name] = @ + 1]
                /\ skipped' = skipped
                /\ IF outcome = "ok"
                   THEN LET best_match == SearchSong(song)
                        IN  /\ found_tracks' = IF best_match # None
                                               THEN Append(found_tracks, song)
                                               ELSE found_tracks
                            /\ plex_tracks' = IF best_match # None
                                              THEN Append(plex_tracks, best_match)
                                              ELSE plex_tracks
                            /\ missing_tracks' = IF best_match # None
                                                 THEN missing_tracks
                                                 ELSE Append(missing_tracks, song)
                   ELSE /\ missing_tracks' = OnBadRequest(missing_tracks, song)
                        /\ UNCHANGED <<plex_tracks, found_tracks>>
  /\ songIdx' = songIdx + 1
  /\ UNCHANGED <<pc, plIdx, playlist_data, csv, plex_playlists, current_playlist_songs,
                 confirmation, addLog, csvWrites, normVars>>

\* --------------------------------------------- add_tracks_to_playlist

\* tracks_to_add of add_tracks_to_playlist: the tracks whose
\* f"{track['artist']} - {track['title']}" is not among the playlist's items.
TracksToAdd(tracks, items) ==
  LET current_playlist_tracks == ItemStrings(items)
  IN  SelectSeq(tracks, LAMBDA track :
        \A k \in DOMAIN current_playlist_tracks :
           current_playlist_tracks[k] # TrackString(track.artist, track.title))

\* The Track object the loop fetches for one track, or None (logged, skipped).
FetchTrackObject(track) ==
  LET artist_results == searchArtists(sanitize_string(track.artist))
  IN  IF artist_results # <<>>
      THEN get_best_matching_track(track.title, artist_results[1].tracks)
      ELSE None

\* track_objects: the objects fetched, in order.
TrackObjects(tracks_to_add) ==
  SelectSeq([i \in DOMAIN tracks_to_add |-> FetchTrackObject(tracks_to_add[i])],
            LAMBDA obj : obj # None)

\* The value add_tracks_to_playlist returns: len(track_objects), or 0 when
\* addItems raised.
NumAdded(track_objects, raised) == IF raised THEN 0 ELSE Len(track_objects)

\* The rows confirm_and_add_tracks writes back: those not in tracks_to_add,
\* which is found_tracks.
RemainingTracks(rows, tracks_to_add) ==
  SelectSeq(rows, LAMBDA row : \A k \in DOMAIN tracks_to_add : tracks_to_add[k] # row)

\* confirm_and_add_tracks, with the add_tracks_to_playlist it calls and the
\* rewrite of the CSV file.  addItems sends one request for the whole list:
\* it raises, adding nothing, when the server refuses one of the objects
\* (bad), and appends them all otherwise.
ConfirmAndAdd ==
  /\ pc = "recon"
  /\ songIdx > Len(songs)
  /\ LET playlist == fetch_playlist(plex_playlists, playlist_name)
     IN  IF playlist = None \/ found_tracks = <<>>
         THEN /\ NextPlaylist
              /\ UNCHANGED <<csv, plex_playlists, confirmation, addLog, csvWrites>>
         ELSE \E resp \in Responses :
                /\ confirmation' = [confirmation EXCEPT ![playlist_name] = resp]
                /\ IF ~IsAffirmative(resp)
                   THEN /\ NextPlaylist
                        /\ UNCHANGED <<csv, plex_playlists, addLog, csvWrites>>
                   ELSE LET tracks_to_add == TracksToAdd(found_tracks, playlist.items)
                            track_objects == TrackObjects(tracks_to_add)
                        IN  \/ \* searchArtists or tracks() raises for one of the
                               \* tracks: nothing catches it, the run ends
                               /\ tracks_to_add # <<>>
                               /\ pc' = "crashed"
                               /\ UNCHANGED <<plIdx, current_playlist_songs, songIdx, plex_tracks,
                                              missing_tracks, found_tracks, skipped, searched,
                                              csv, plex_playlists, addLog, csvWrites>>
                            \/ \E bad \in SUBSET Range(track_objects) :
                                 /\ plex_playlists' =
                                      IF bad = {}
                                      THEN [plex_playlists EXCEPT
                                              ![playlist_name].items = @ \o track_objects]
                                      ELSE plex_playlists
                                 /\ addLog' = [addLog EXCEPT ![playlist_name] =
                                      [called |-> TRUE, tracks_to_add |-> tracks_to_add,
                                       track_objects |-> track_objects, bad |-> bad,
                                       items_before |-> playlist.items,
                                       num_added |-> NumAdded(track_objects, bad # {})]]
                                 /\ csv' = [csv EXCEPT ![playlist_name] =
                                              RemainingTracks(@, found_tracks)]
                                 /\ csvWrites' = [csvWrites EXCEPT ![playlist_name] = @ + 1]
                                 /\ NextPlaylist
  /\ UNCHANGED <<playlist_data, searches, normVars>>

Next == SkipPlaylist \/ StartPlaylist \/ ReconcileSong \/ ConfirmAndAdd

Spec == Init /\ [][Next]_vars

\* ------------------------------------------- sanitize_string, twice

\* The characters sanitize_string is given: a letter, ASCII punctuation, the
\* period, both question marks, and non-ASCII characters, two of which
\* unidecode turns into punctuation.
Alphabet == {"a", "!", ".", "?", "iquest", "eacute", "iexcl", "rsquo"}

InitNorm ==
  /\ pc = "input"
  /\ input_string \in SeqsUpTo(Alphabet, MaxLen)
  /\ sanitized_string = <<>>
  /\ resanitized_string = <<>>
  /\ plIdx = 1
  /\ playlist_data = [n \in Names |-> <<>>]
  /\ csv = [n \in Names |-> <<>>]
  /\ plex_playlists = [n \in Names |-> [exists |-> FALSE, items |-> <<>>]]
  /\ current_playlist_songs = <<>>
  /\ songIdx = 1
  /\ plex_tracks = <<>>
  /\ missing_tracks = <<>>
  /\ found_tracks = <<>>
  /\ skipped = <<>>
  /\ searched = {}
  /\ searches = [n \in Names |-> 0]
  /\ confirmation = [n \in Names |-> "unasked"]
  /\ addLog = [n \in Names |-> NoAdd]
  /\ csvWrites = [n \in Names |-> 0]

runVars == <<plIdx, playlist_data, csv, plex_playlists, current_playlist_songs,
             songIdx, plex_tracks, missing_tracks, found_tracks, skipped, searched,
             searches, confirmation, addLog, csvWrites>>

\* sanitize_string(input_string)
Sanitize ==
  /\ pc = "input"
  /\ sanitized_string' = sanitize_string(input_string)
  /\ pc' = "sanitized"
  /\ UNCHANGED <<input_string, resanitized_string, runVars>>

\* sanitize_string of the result
Resanitize ==
  /\ pc = "sanitized"
  /\ resanitized_string' = sanitize_string(sanitized_string)
  /\ pc' = "resanitized"
  /\ UNCHANGED <<input_string, sanitized_string, runVars>>

NextNorm == Sanitize \/ Resanitize

SpecNorm == InitNorm /\ [][NextNorm]_vars

\* ----------------------------------------------------------- the claims

\* The playlists whose pass is over.
Passed(n) == \E k \in 1 .. (plIdx - 1) : PlaylistNames[k] = n

Count(seq, x) == Cardinality({k \in DOMAIN seq : seq[k] = x})

\* The songs of playlist n that were added to it: those add_tracks_to_playlist
\* fetched an object for, when addItems did not raise.
SuccessfullyAdded(n) ==
  IF addLog[n].called /\ addLog[n].bad = {}
  THEN {t \in Range(addLog[n].tracks_to_add) : FetchTrackObject(t) # None}
  ELSE {}

\* C1: after a playlist's pass, its CSV holds the original rows minus exactly
\* those that were matched, confirmed and successfully added to the playlist.
C1_BacklogMinusAdded ==
  \A n \in Names :
    Passed(n) =>
      csv[n] = SelectSeq(playlist_data[n], LAMBDA row : row \notin SuccessfullyAdded(n))

\* C2: every song in found_tracks was matched to its Plex track with a
\* similarity ratio of at least 0.9.
C2_MatchedAtLeastThreshold ==
  \A k \in DOMAIN found_tracks :
    LET ratio == Ratio(found_tracks[k].title, sanitize_string(plex_tracks[k].title))
    IN  10 * ratio[1] >= 9 * ratio[2]

\* C3: during and after reconciliation, every song the loop has passed is in
\* exactly one of skipped (already present), found_tracks and missing_tracks:
\* the three hold as many entries as were passed, and each song as often as
\* it occurs among them.
C3_BucketsPartition ==
  pc = "recon" =>
    LET passed == SubSeq(songs, 1, songIdx - 1)
        present == [k \in DOMAIN skipped |-> songs[skipped[k]]]
    IN  /\ Len(skipped) + Len(found_tracks) + Len(missing_tracks) = Len(passed)
        /\ \A k, l \in DOMAIN skipped : k # l => skipped[k] # skipped[l]
        /\ \A song \in Songs :
             Count(present, song) + Count(found_tracks, song) + Count(missing_tracks, song)
               = Count(passed, song)

\* C3's case: a finished reconciliation of two songs, one found and one whose
\* query failed (it is in missing_tracks though the library has a match).
C3_Witness ==
  /\ pc = "recon"
  /\ songIdx > Len(songs)
  /\ found_tracks # <<>>
  /\ \E k \in DOMAIN missing_tracks : SearchSong(missing_tracks[k]) # None

\* C4: no library track occurs more than once in a playlist.
C4_NoDuplicateInPlaylist ==
  \A n \in Names :
    LET items == plex_playlists[n].items
    IN  \A i, j \in DOMAIN items : i # j => items[i].id # items[j].id

\* C5: when addItems fails for the batch, every fetched object the server
\* does not refuse is added all the same, and the count returned is the
\* number of objects added.
C5_FallbackPerItem ==
  \A n \in Names :
    addLog[n].called =>
      LET log == addLog[n]
          items == plex_playlists[n].items
      IN  /\ \A k \in DOMAIN log.track_objects :
                log.track_objects[k] \notin log.bad =>
                  Count(items, log.track_objects[k]) > Count(log.items_before, log.track_objects[k])
          /\ log.num_added = Len(items) - Len(log.items_before)

\* C6: a step changes a playlist, rewrites its CSV or calls addItems for it
\* only if the answer to its "Add n tracks" prompt is y or Y.
C6_MutationOnlyWhenConfirmed ==
  [][\A n \in Names :
       confirmation'[n] \notin {"y", "Y"} =>
         /\ plex_playlists'[n] = plex_playlists[n]
         /\ csv'[n] = csv[n]
         /\ csvWrites'[n] = csvWrites[n]
         /\ addLog'[n] = addLog[n]]_vars

\* C6's case: one playlist's additions were declined with an empty answer,
\* another's were confirmed and added.
C6_Witness ==
  \E n, m \in Names :
    /\ Passed(n) /\ confirmation[n] = ""
    /\ Passed(m) /\ addLog[m].called /\ plex_playlists[m].items # addLog[m].items_before

\* C7: for a playlist that does not exist, no library search is issued, no
\* addition is attempted and its CSV is left as it was.
C7_MissingPlaylistSkipped ==
  \A n \in Names :
    ~plex_playlists[n].exists =>
      /\ searches[n] = 0
      /\ ~addLog[n].called
      /\ csvWrites[n] = 0
      /\ csv[n] = playlist_data[n]

\* C8: a failing library query never terminates the run.
C8_QueryFailureNeverTerminates == pc # "crashed"

C10_Idempotent == pc = "resanitized" => resanitized_string = sanitized_string

====
